---- MODULE Spec2Model ----
(***************************************************************************)
(* A model of the xto6 Transformer (src/src/transformer.js) and of its     *)
(* tree provider, the ast-generator (src/unnamed/part_000).                *)
(*                                                                         *)
(* One Transformer instance T is observed; any other instance of the same  *)
(* process acts on T only through the object Transformer.defaultOptions,   *)
(* which every constructor call merges into and keeps as this.options.     *)
(*                                                                         *)
(* Program text is a sequence of tokens, a tree is a Program node with a   *)
(* body of node kinds, and the six lowering passes rewrite node kinds.     *)
(***************************************************************************)
EXTENDS Integers, Sequences, FiniteSets, TLC

VARIABLES
  defaultOptions,  \* the content of the object Transformer.defaultOptions
  T,               \* the observed Transformer: its fields
  last,            \* the call that ran last and how it ended
  phase,           \* history: the lifecycle state of spec 4.3 that T is in
  calls,           \* history: the apply calls made on T's tree since it was read
  onceText,        \* history: what escodegen renders right after the first full run
  cbCount,         \* how often the callback of the last writeFile / readFile ran
  cbArg,           \* what that callback was last handed
  pending,         \* the fs operation in flight, if any
  disk,            \* the files: whether each exists, and its text
  diagnostics,     \* the diagnostics of its passes the Transformer has kept
  kept,            \* the options object a caller of astGenerator.readFile keeps
  acornEcmaVersion \* the ecmaVersion acorn takes when the options name none

vars == <<defaultOptions, T, last, phase, calls, onceText, cbCount, cbArg,
          pending, disk, diagnostics, kept, acornEcmaVersion>>

----------------------------------------------------------------------------
(* Bounds of the model *)

\* the most transformer keys one constructor call overrides
MaxOverrideKeys == 1
\* the most tokens of a source text
MaxLen == 1
\* the most applyTransformation(s) calls on one tree
MaxCalls == 2

\* prepareTransformations is called on a Transformer whose list holds at most
\* this many times the passes its options enable
MaxPrepares == 1

----------------------------------------------------------------------------
(* Configuration: Transformer.defaultOptions, merge, prepareTransformations *)

\* the object literal assigned to Transformer.defaultOptions; own is the set
\* of its top-level keys, coffee reads "undefined" while that key is absent
InitialDefaultOptions ==
  [ transformers |->
      [ k \in {"classes", "stringTemplates", "arrowFunctions", "let",
               "defaultArguments", "objectMethods"} |-> TRUE ],
    formatter |-> "false",
    coffee |-> "undefined",
    own |-> {"transformers", "formatter"} ]

\* the (key, transformation) pairs of prepareTransformations, in call order
PassTable ==
  << [key |-> "classes",          transformation |-> "classTransformation"],
     [key |-> "stringTemplates",  transformation |-> "templateStringTransformation"],
     [key |-> "arrowFunctions",   transformation |-> "arrowFunctionTransformation"],
     [key |-> "let",              transformation |-> "letTransformation"],
     [key |-> "defaultArguments", transformation |-> "defaultArgsTransformation"],
     [key |-> "objectMethods",    transformation |-> "objectMethodsTransformation"] >>

Transformations == { PassTable[i].transformation : i \in DOMAIN PassTable }

PassKeys == { PassTable[i].key : i \in DOMAIN PassTable }

\* the keys a caller may put under transformers: the six the code reads and
\* the name the configuration surface documents for the let pass
TransformerKeys == PassKeys \cup {"blockScopedBindings"}

\* a merge in which the destination's own keys win over the source's
merge_destinationWins(object, source) ==
  [ transformers |->
      [ k \in DOMAIN object.transformers \cup DOMAIN source.transformers |->
          IF k \in DOMAIN object.transformers
          THEN object.transformers[k]
          ELSE source.transformers[k] ],
    formatter |-> object.formatter,
    coffee |->
      IF object.coffee = "undefined" THEN source.coffee ELSE object.coffee,
    own |-> object.own \cup (IF source.coffee = "undefined" THEN {} ELSE {"coffee"}) ]

\* lodash merge(object, source): source's defined properties are written into
\* object, recursively for the nested transformers object; the result is
\* object itself, so this is the new content of the destination
merge(object, source) ==
  [ transformers |->
      [ k \in DOMAIN object.transformers \cup DOMAIN source.transformers |->
          IF k \in DOMAIN source.transformers
          THEN source.transformers[k]
          ELSE object.transformers[k] ],
    formatter |->
      IF source.formatter = "undefined" THEN object.formatter ELSE source.formatter,
    coffee |->
      IF source.coffee = "undefined" THEN object.coffee ELSE source.coffee,
    own |-> object.own \cup (IF source.coffee = "undefined" THEN {} ELSE {"coffee"}) ]

\* what this.options of a Transformer denotes: the constructor keeps merge's
\* result, which is its first argument, the object Transformer.defaultOptions
options(t) ==
  IF t.options = "Transformer.defaultOptions" THEN defaultOptions
  ELSE InitialDefaultOptions

\* a test that looks only at whether the key is defined
shouldTransform_defined(opts, key) == key \in DOMAIN opts.transformers

shouldTransform(opts, key) ==
  key \in DOMAIN opts.transformers /\ opts.transformers[key]

RECURSIVE doTransform(_, _, _)
\* the doTransform calls from the i-th on, pushing onto acc
doTransform(opts, i, acc) ==
  IF i > Len(PassTable) THEN acc
  ELSE doTransform(opts, i + 1,
         IF shouldTransform(opts, PassTable[i].key)
         THEN Append(acc, PassTable[i].transformation)
         ELSE acc)

\* prepareTransformations(): the six doTransform calls push onto the list
\* this.transformations holds when it is called
prepareTransformations(opts, transformations) == doTransform(opts, 1, transformations)

----------------------------------------------------------------------------
(* Values, program text and trees *)

\* a JavaScript string holding program text: tokens, and who laid them out
Text(tokens, layout) == [kind |-> "string", tokens |-> tokens, layout |-> layout]

\* the value null, and an Error object as fs hands one to a callback
Null == [kind |-> "null", tokens |-> <<>>, layout |-> "none"]

IOErrorValue == [kind |-> "error", tokens |-> <<>>, layout |-> "none"]

Undefined == [kind |-> "undefined", tokens |-> <<>>, layout |-> "none"]

\* String(v), which acorn applies to its input
String(v) ==
  CASE v.kind = "string" -> v
    [] v.kind = "null" -> Text(<<"null">>, "source")
    [] v.kind = "undefined" -> Text(<<"undefined">>, "source")
    [] OTHER -> Text(<<"Error:", "ENOENT:", "no", "such", "file">>, "source")

ES6Tokens == {"class", "tpl", "=>", "let", "a=1", "m(){}"}

\* the tokens callers write: the six constructs, one of the older dialect
\* and one no parser accepts
SourceTokens == ES6Tokens \cup {"var", "@@"}

SourceTexts ==
  { Text(toks, "source") :
      toks \in UNION { [1..n -> SourceTokens] : n \in 0..MaxLen } }

\* the ecmaVersion acorn.parse(js, options) works with: options.ecmaVersion,
\* which Transformer.readFile sets to 6, else acorn's own default
ecmaVersionOf(opts) ==
  IF "ecmaVersion" \in opts.own THEN 6 ELSE acornEcmaVersion

\* the node kind acorn builds for a token under an ecmaVersion; "none" where
\* it reports a syntax error, as for an ES6 construct under a version before 6
NodeOf(token, ecmaVersion) ==
  IF ecmaVersion < 6 /\ token \in ES6Tokens \cup {"class extends f()"} THEN "none" ELSE
  CASE token = "class" -> "ClassDeclaration"
    [] token = "tpl" -> "TemplateLiteral"
    [] token = "=>" -> "ArrowFunctionExpression"
    [] token = "let" -> "LetDeclaration"
    [] token = "a=1" -> "DefaultParameter"
    [] token = "m(){}" -> "MethodProperty"
    [] token = "class extends f()" -> "ClassDeclarationComputedSuper"
    [] token = "function" -> "FunctionDeclaration"
    [] token = "s+x" -> "BinaryExpression"
    [] token = "function(){}" -> "FunctionExpression"
    [] token = "var" -> "VarDeclaration"
    [] token = "a===undefined" -> "ParameterCheck"
    [] token = "m:function(){}" -> "FunctionProperty"
    [] token = "null" -> "Literal"
    [] token = "undefined" -> "Identifier"
    [] OTHER -> "none"

\* the token escodegen writes for a node kind
TokenOf(node) ==
  CASE node = "ClassDeclaration" -> "class"
    [] node = "TemplateLiteral" -> "tpl"
    [] node = "ArrowFunctionExpression" -> "=>"
    [] node = "LetDeclaration" -> "let"
    [] node = "DefaultParameter" -> "a=1"
    [] node = "MethodProperty" -> "m(){}"
    [] node = "ClassDeclarationComputedSuper" -> "class extends f()"
    [] node = "FunctionDeclaration" -> "function"
    [] node = "BinaryExpression" -> "s+x"
    [] node = "FunctionExpression" -> "function(){}"
    [] node = "VarDeclaration" -> "var"
    [] node = "ParameterCheck" -> "a===undefined"
    [] node = "FunctionProperty" -> "m:function(){}"
    [] node = "Literal" -> "null"
    [] OTHER -> "undefined"

\* this.ast = {} of the constructor: an object with no type
EmptyObject == [type |-> "undefined", body |-> <<>>]

\* what acorn.parse(js, options) returns or throws
parse(js, ecmaVersion) ==
  LET toks == String(js).tokens IN
    IF \E i \in DOMAIN toks : NodeOf(toks[i], ecmaVersion) = "none"
    THEN [outcome |-> "SyntaxError", ast |-> EmptyObject]
    ELSE [outcome |-> "returned",
          ast |-> [type |-> "Program",
                   body |-> [i \in DOMAIN toks |-> NodeOf(toks[i], ecmaVersion)]]]

\* what coffee.compile(js) writes for a token of the alternate dialect;
\* "none" where the compiler reports an error
CompiledOf(token) ==
  CASE token = "->" -> "function(){}"
    [] token = "=>" -> "function(){}"
    [] token = "class" -> "function"
    [] token = "null" -> "null"
    [] OTHER -> "none"

\* what coffee.compile(js) returns or throws
compile(js) ==
  IF js.kind # "string" THEN [outcome |-> "TypeError", js |-> js]
  ELSE IF \E i \in DOMAIN js.tokens : CompiledOf(js.tokens[i]) = "none"
  THEN [outcome |-> "SyntaxError", js |-> js]
  ELSE [outcome |-> "returned",
        js |-> Text([i \in DOMAIN js.tokens |-> CompiledOf(js.tokens[i])], "coffee")]

\* the keys read writes into the options object it is handed
AcornKeys == {"ranges", "onComment", "onToken", "plugins"}

\* a read that returns the text it was handed, not the text it parsed
read_sourceJs(js, opts) ==
  LET o == [opts EXCEPT !.own = @ \cup {"ranges", "onComment", "onToken", "plugins"}]
      c == IF o.coffee = "true" THEN compile(js) ELSE [outcome |-> "returned", js |-> js]
      p == parse(c.js, ecmaVersionOf(o))
  IN  IF c.outcome # "returned"
      THEN [outcome |-> c.outcome, ast |-> EmptyObject, js |-> js, options |-> o]
      ELSE [outcome |-> p.outcome, ast |-> p.ast, js |-> js, options |-> o]

\* astGenerator.read(js, options): options is the content of the object
\* handed in, and the result carries its content afterwards
read(js, opts) ==
  LET o == [opts EXCEPT !.own = @ \cup AcornKeys]
      c == IF o.coffee = "true" THEN compile(js) ELSE [outcome |-> "returned", js |-> js]
      p == parse(c.js, ecmaVersionOf(o))
  IN  IF c.outcome # "returned"
      THEN [outcome |-> c.outcome, ast |-> EmptyObject, js |-> js, options |-> o]
      ELSE [outcome |-> p.outcome, ast |-> p.ast, js |-> c.js, options |-> o]

----------------------------------------------------------------------------
(* The lowering passes and the text emitter *)

\* the node kind a pass matches and the older-dialect kind it puts in place
Matches(transformation) ==
  CASE transformation = "classTransformation" -> "ClassDeclaration"
    [] transformation = "templateStringTransformation" -> "TemplateLiteral"
    [] transformation = "arrowFunctionTransformation" -> "ArrowFunctionExpression"
    [] transformation = "letTransformation" -> "LetDeclaration"
    [] transformation = "defaultArgsTransformation" -> "DefaultParameter"
    [] OTHER -> "MethodProperty"

Lowered(node) ==
  CASE node = "ClassDeclaration" -> "FunctionDeclaration"
    [] node = "TemplateLiteral" -> "BinaryExpression"
    [] node = "ArrowFunctionExpression" -> "FunctionExpression"
    [] node = "LetDeclaration" -> "VarDeclaration"
    [] node = "DefaultParameter" -> "ParameterCheck"
    [] node = "MethodProperty" -> "FunctionProperty"
    [] OTHER -> node

\* transformation(ast): every node of the matched kind is replaced in place
Apply(transformation, ast) ==
  [ast EXCEPT !.body =
     [i \in DOMAIN ast.body |->
        IF ast.body[i] = Matches(transformation)
        THEN Lowered(ast.body[i]) ELSE ast.body[i]]]

\* the node kind a pass matches and cannot rewrite: a class whose superclass
\* is no simple reference; "none" for a pass that rewrites all it matches
Declines(transformation) ==
  IF transformation = "classTransformation" THEN "ClassDeclarationComputedSuper"
  ELSE "none"

\* codeGenerator.generate(ast, {...}): throws on a node with no known type
generate(ast) ==
  IF ast.type # "Program"
  THEN [outcome |-> "Error", code |-> Undefined]
  ELSE [outcome |-> "returned",
        code |-> Text([i \in DOMAIN ast.body |-> TokenOf(ast.body[i])], "escodegen")]

\* formatter.format(result, options.formatter)
format(code) == [code EXCEPT !.layout = "esformatter"]

----------------------------------------------------------------------------
(* The Transformer's methods, as functions of its fields *)

\* the fields before the constructor has run
NoTransformer ==
  [ constructed |-> FALSE, sourceCode |-> Text(<<>>, "source"), ast |-> EmptyObject,
    options |-> "none", transformations |-> <<>> ]

\* constructor(options): the fields it leaves, merged being the content of
\* Transformer.defaultOptions after merge(this.constructor.defaultOptions, options)
constructor(merged) ==
  [ constructed |-> TRUE, sourceCode |-> Text(<<>>, "source"), ast |-> EmptyObject,
    options |-> "Transformer.defaultOptions",
    transformations |-> prepareTransformations(merged, <<>>) ]

\* applyTransformation(transformation): transformation(this.ast) is a
\* statement of its own: the tree the pass changed is kept, and whatever the
\* pass hands back is dropped
applyTransformation(t, transformation) ==
  [t EXCEPT !.ast = Apply(transformation, t.ast)]

RECURSIVE ApplyFrom(_, _)
\* the loop of applyTransformations from index i on (i counts from 1)
ApplyFrom(t, i) ==
  IF i > Len(t.transformations) THEN t
  ELSE ApplyFrom(applyTransformation(t, t.transformations[i]), i + 1)

RECURSIVE ShiftFrom(_, _)
\* a loop that takes each pass off the list as it applies it
ShiftFrom(t, i) ==
  IF i > Len(t.transformations) THEN t
  ELSE ShiftFrom([applyTransformation(t, Head(t.transformations))
                    EXCEPT !.transformations = Tail(@)], i + 1)

applyTransformations_shift(t) == ShiftFrom(t, 1)

\* a loop over every pass of the table, whatever the configuration
applyTransformations_everyPass(t) ==
  LET all == [i \in DOMAIN PassTable |-> PassTable[i].transformation]
      r == ApplyFrom([t EXCEPT !.transformations = all], 1)
  IN  [r EXCEPT !.transformations = t.transformations]

applyTransformations(t) == ApplyFrom(t, 1)

\* out(): the text it returns, or the error generate throws
out(t, opts) ==
  LET g == generate(t.ast) IN
    IF g.outcome # "returned" THEN g
    ELSE IF opts.formatter # "false"
         THEN [outcome |-> "returned", code |-> format(g.code)]
         ELSE g

----------------------------------------------------------------------------
(* Files *)

\* a file name is its base and its extension
ReadNames == { <<"a", ".js">>, <<"b", ".coffee">>, <<"missing", ".js">> }

WriteNames == { <<"out", ".js">>, <<"readonly", ".js">> }

FileNames == ReadNames \cup WriteNames

\* whether fs can write the file
Writable(file) == file # <<"readonly", ".js">>

InitialDisk ==
  [ f \in FileNames |->
      CASE f = <<"a", ".js">> -> [exists |-> TRUE, text |-> Text(<<"class", "=>">>, "source")]
        [] f = <<"b", ".coffee">> -> [exists |-> TRUE, text |-> Text(<<"->">>, "source")]
        [] f = <<"readonly", ".js">> -> [exists |-> TRUE, text |-> Text(<<"let">>, "source")]
        [] OTHER -> [exists |-> FALSE, text |-> Text(<<>>, "source")] ]

\* /\.coffee$/.test(file)
IsCoffeeName(file) == file[Len(file)] = ".coffee"

\* the options object a caller of astGenerator.readFile hands in
CallerOptions(coffee, sync, callback) ==
  [ coffee |-> coffee, sync |-> sync, callback |-> callback,
    own |-> (IF sync THEN {"sync"} ELSE {})
              \cup (IF callback THEN {"callback"} ELSE {})
              \cup (IF coffee = "undefined" THEN {} ELSE {"coffee"}) ]

\* the object {sync: true, ecmaVersion: 6} of Transformer.readFile
ReadFileOptions ==
  [CallerOptions("undefined", TRUE, FALSE) EXCEPT !.own = @ \cup {"ecmaVersion"}]

\* a first statement that takes the flag from the file name whatever the
\* object holds
deriveCoffee_nameOnly(file, opts) ==
  [opts EXCEPT !.coffee = IF IsCoffeeName(file) THEN "true" ELSE "false",
               !.own = @ \cup {"coffee"}]

\* the first statement of astGenerator.readFile
deriveCoffee(file, opts) ==
  IF opts.coffee = "undefined"
  THEN [opts EXCEPT !.coffee = IF IsCoffeeName(file) THEN "true" ELSE "false",
                    !.own = @ \cup {"coffee"}]
  ELSE opts

\* astGenerator.readFile(file, options) with options.sync set
readFileSync(file, opts, d) ==
  LET o == deriveCoffee(file, opts) IN
    IF ~d[file].exists
    THEN [outcome |-> "IOError", ast |-> EmptyObject, js |-> Undefined, options |-> o]
    ELSE read(d[file].text, o)

\* the value the callback (js) => {...} given to fs.readFile binds to js,
\* fs calling it with (err, data)
readFileCallbackJs(err, data) == err

----------------------------------------------------------------------------
(* State and actions *)

\* the object a caller hands to the constructor
Override(transformers, formatter, coffee) ==
  [transformers |-> transformers, formatter |-> formatter, coffee |-> coffee]

NoKeys == [k \in {} |-> TRUE]

\* constructor(options = {}) called with no argument
NoOverride == Override(NoKeys, "undefined", "undefined")

\* a record of a call: what ended how, the text it returned and, for a
\* constructor, the options it was given
Returned(op) == [op |-> op, outcome |-> "returned", code |-> Undefined, arg |-> NoOverride]

Threw(op, what) == [op |-> op, outcome |-> what, code |-> Undefined, arg |-> NoOverride]

NoPending ==
  [ kind |-> "none", file |-> <<>>, data |-> Undefined, options |-> CallerOptions("undefined", FALSE, FALSE) ]

\* whether fs still owes a callback; the model lets one operation be in flight
InFlight ==
  pending.kind \in {"fs.readFile", "fs.writeFile", "fs.writeFile opened",
                    "fs.writeFile written"}

NoArg == [kind |-> "none", ast |-> EmptyObject, js |-> Undefined]

\* no options object kept yet: given is the coffee value the object held when
\* it was last handed in, file the file it was handed in with
NoKept ==
  [ options |-> CallerOptions("undefined", TRUE, FALSE), given |-> "undefined",
    file |-> <<>> ]

Init ==
  /\ defaultOptions = InitialDefaultOptions
  /\ T = NoTransformer
  /\ last = Returned("none")
  /\ phase = "Unconfigured"
  /\ calls = <<>>
  /\ onceText = Undefined
  /\ cbCount = 0
  /\ cbArg = NoArg
  /\ pending = NoPending
  /\ disk = InitialDisk
  /\ diagnostics = <<>>
  /\ kept = NoKept
  /\ acornEcmaVersion \in {5, 6}

\* T = new Transformer(o)
Construct(o) ==
  /\ defaultOptions' = merge(defaultOptions, o)
  /\ T' = constructor(defaultOptions')
  /\ last' = [Returned("constructor") EXCEPT !.arg = o]
  /\ phase' = "Configured"
  /\ calls' = <<>>
  /\ onceText' = Undefined
  /\ diagnostics' = <<>>
  /\ UNCHANGED <<cbCount, cbArg, pending, disk, kept,
                 acornEcmaVersion>>

\* new Transformer(o), the instance being another than T
ConstructOther(o) ==
  /\ defaultOptions' = merge(defaultOptions, o)
  /\ last' = [Returned("constructor of another") EXCEPT !.arg = o]
  /\ UNCHANGED <<T, phase, calls, onceText, cbCount, cbArg, pending, disk,
                 diagnostics, kept,
                 acornEcmaVersion>>

\* T.prepareTransformations(), called on a constructed Transformer: the
\* enabled passes, by the options as they are now, are pushed once more
PrepareTransformations ==
  /\ T.constructed
  /\ Len(calls) < MaxCalls
  /\ Len(T.transformations) <= MaxPrepares * Len(prepareTransformations(options(T), <<>>))
  /\ T' = [T EXCEPT !.transformations = prepareTransformations(options(T), @)]
  /\ calls' = Append(calls, "prepareTransformations")
  /\ last' = Returned("prepareTransformations")
  /\ UNCHANGED <<defaultOptions, phase, onceText, cbCount, cbArg, pending, disk,
                 diagnostics, kept,
                 acornEcmaVersion>>

\* what read and readFile of the Transformer do with the provider's result
Assign(op, r) ==
  /\ last' = Threw(op, r.outcome)
  /\ IF r.outcome = "returned"
     THEN /\ T' = [T EXCEPT !.ast = r.ast, !.sourceCode = r.js]
          /\ phase' = "Parsed"
          /\ calls' = <<>>
          /\ onceText' = Undefined
          /\ diagnostics' = <<>>
     ELSE UNCHANGED <<T, phase, calls, onceText, diagnostics>>

\* T.read(string)
Read(string) ==
  /\ T.constructed
  /\ LET r == read(string, options(T)) IN
       /\ defaultOptions' = r.options
       /\ Assign("read", r)
  /\ UNCHANGED <<cbCount, cbArg, pending, disk, kept,
                 acornEcmaVersion>>

\* T.readFile(filename)
ReadFile(filename) ==
  /\ T.constructed
  /\ Assign("readFile", readFileSync(filename, ReadFileOptions, disk))
  /\ UNCHANGED <<defaultOptions, cbCount, cbArg, pending, disk, kept,
                 acornEcmaVersion>>

\* T.applyTransformation(transformation)
ApplyTransformation(transformation) ==
  /\ T.constructed
  /\ Len(calls) < MaxCalls
  /\ T' = applyTransformation(T, transformation)
  /\ calls' = Append(calls, transformation)
  /\ last' = Returned("applyTransformation")
  /\ UNCHANGED <<diagnostics, defaultOptions, phase, onceText, cbCount, cbArg, pending, disk, kept,
                 acornEcmaVersion>>

\* T.applyTransformations()
ApplyTransformations ==
  /\ T.constructed
  /\ Len(calls) < MaxCalls
  /\ T' = applyTransformations(T)
  /\ calls' = Append(calls, "applyTransformations")
  /\ onceText' = IF \A i \in DOMAIN calls : calls[i] # "applyTransformations"
                 THEN out(T', options(T)).code ELSE onceText
  /\ phase' = "Lowered"
  /\ last' = Returned("applyTransformations")
  /\ UNCHANGED <<diagnostics, defaultOptions, cbCount, cbArg, pending, disk, kept,
                 acornEcmaVersion>>

\* T.out()
Out ==
  /\ T.constructed
  /\ LET r == out(T, options(T)) IN
       /\ last' = [Threw("out", r.outcome) EXCEPT !.code = r.code]
       /\ phase' = IF r.outcome = "returned" THEN "Emitted" ELSE phase
  /\ UNCHANGED <<defaultOptions, T, calls, onceText, cbCount, cbArg, pending, disk,
                 diagnostics, kept,
                 acornEcmaVersion>>

\* T.writeFile(filename, callback); callback tells whether one is given
WriteFile(filename, callback) ==
  /\ T.constructed
  /\ ~InFlight
  /\ LET r == out(T, options(T))
         op == IF callback THEN "writeFile with callback" ELSE "writeFile"
     IN  /\ cbCount' = 0
         /\ cbArg' = NoArg
         /\ IF r.outcome # "returned"
            THEN /\ last' = Threw(op, r.outcome)
                 /\ UNCHANGED <<phase, pending, disk>>
            ELSE IF callback
            THEN /\ pending' = [NoPending EXCEPT !.kind = "fs.writeFile",
                                                 !.file = filename, !.data = r.code]
                 /\ last' = Returned(op)
                 /\ phase' = "Emitted"
                 /\ UNCHANGED disk
            ELSE IF Writable(filename)
            THEN /\ disk' = [disk EXCEPT ![filename] = [exists |-> TRUE, text |-> r.code]]
                 /\ last' = Returned(op)
                 /\ phase' = "Emitted"
                 /\ UNCHANGED pending
            ELSE /\ last' = Threw(op, "IOError")
                 /\ phase' = "Emitted"
                 /\ UNCHANGED <<pending, disk>>
  /\ UNCHANGED <<defaultOptions, T, calls, onceText, diagnostics, kept,
                 acornEcmaVersion>>

\* fs opens the file of the write that writeFile started: the file is
\* created, or cut to no text, before any of the data is in it
FsWriteOpen ==
  /\ pending.kind = "fs.writeFile"
  /\ Writable(pending.file)
  /\ disk' = [disk EXCEPT ![pending.file] = [exists |-> TRUE, text |-> Text(<<>>, "source")]]
  /\ pending' = [pending EXCEPT !.kind = "fs.writeFile opened"]
  /\ UNCHANGED <<defaultOptions, T, last, phase, calls, onceText, cbCount, cbArg,
                 diagnostics, kept,
                 acornEcmaVersion>>

\* fs writes the data into the file it opened
FsWriteData ==
  /\ pending.kind = "fs.writeFile opened"
  /\ disk' = [disk EXCEPT ![pending.file] = [exists |-> TRUE, text |-> pending.data]]
  /\ pending' = [pending EXCEPT !.kind = "fs.writeFile written"]
  /\ UNCHANGED <<defaultOptions, T, last, phase, calls, onceText, cbCount, cbArg,
                 diagnostics, kept,
                 acornEcmaVersion>>

\* fs has closed the file, or could not open it, and calls the callback
FsWriteDone ==
  /\ \/ pending.kind = "fs.writeFile written"
     \/ pending.kind = "fs.writeFile" /\ ~Writable(pending.file)
  /\ cbArg' = [NoArg EXCEPT !.kind = IF Writable(pending.file) THEN "null" ELSE "error"]
  /\ cbCount' = cbCount + 1
  /\ pending' = [pending EXCEPT !.kind = "done"]
  /\ last' = Returned("fs.writeFile callback")
  /\ UNCHANGED <<defaultOptions, T, phase, calls, onceText, disk, diagnostics, kept,
                 acornEcmaVersion>>

\* astGenerator.readFile(file, {coffee, callback}) with options.sync not set
AstReadFile(file, coffee, callback) ==
  /\ ~InFlight
  /\ pending' = [NoPending EXCEPT !.kind = "fs.readFile", !.file = file,
                   !.options = deriveCoffee(file, CallerOptions(coffee, FALSE, callback))]
  /\ cbCount' = 0
  /\ cbArg' = NoArg
  /\ last' = Returned("astGenerator.readFile")
  /\ UNCHANGED <<defaultOptions, T, phase, calls, onceText, disk, diagnostics, kept,
                 acornEcmaVersion>>

\* fs finishes the read that astGenerator.readFile started and calls (js) => {...}
FsReadDone ==
  /\ pending.kind = "fs.readFile"
  /\ LET err == IF disk[pending.file].exists THEN Null ELSE IOErrorValue
         data == IF disk[pending.file].exists THEN disk[pending.file].text ELSE Undefined
         js == readFileCallbackJs(err, data)
         r == read(js, pending.options)
     IN  /\ IF pending.options.callback /\ r.outcome = "returned"
            THEN /\ cbCount' = cbCount + 1
                 /\ cbArg' = [kind |-> "result", ast |-> r.ast, js |-> r.js]
                 /\ last' = Returned("fs.readFile callback")
            ELSE /\ last' = IF pending.options.callback
                            THEN Threw("fs.readFile callback", r.outcome)
                            ELSE Returned("fs.readFile callback")
                 /\ UNCHANGED <<cbCount, cbArg>>
         /\ pending' = [pending EXCEPT !.kind = "done",
                                       !.options = IF @.callback THEN r.options ELSE @]
  /\ UNCHANGED <<defaultOptions, T, phase, calls, onceText, disk, diagnostics, kept,
                 acornEcmaVersion>>

\* astGenerator.readFile(file, options) with options.sync set: options is a
\* new object {sync: true, coffee} when fresh, else the object the caller
\* handed in last time and kept
AstReadFileSync(file, fresh, coffee) ==
  /\ fresh \/ coffee = "undefined"
  /\ LET object == IF fresh THEN CallerOptions(coffee, TRUE, FALSE) ELSE kept.options
         r == readFileSync(file, object, disk)
     IN  /\ kept' = [ options |-> r.options,
                      given |-> object.coffee,
                      file |-> file ]
         /\ last' = [Threw("astGenerator.readFile with sync", r.outcome) EXCEPT !.code = r.js]
  /\ UNCHANGED <<defaultOptions, T, phase, calls, onceText, cbCount, cbArg, pending,
                 disk, diagnostics,
                 acornEcmaVersion>>

----------------------------------------------------------------------------
(* The callers' inputs and the specifications *)

\* source texts that open with a class no pass can rewrite
UnsupportedTexts ==
  { Text(<<"class extends f()">> \o t.tokens, "source") : t \in SourceTexts }

\* constructor options that say which dialect read is to take
CoffeeOverrides ==
  { Override(NoKeys, "undefined", c) : c \in {"undefined", "true", "false"} }

\* transformers objects that set at most MaxOverrideKeys keys
TransformerOverrides ==
  UNION { [D -> BOOLEAN] :
            D \in { S \in SUBSET TransformerKeys : Cardinality(S) <= MaxOverrideKeys } }

ConfigOverrides ==
  { Override(tr, "undefined", "undefined") : tr \in TransformerOverrides }
    \cup { Override(NoKeys, f, "undefined") : f \in {"false", "FormatterOptions"} }

\* objects that switch off at most MaxOverrideKeys passes
DisableOverrides ==
  { Override([k \in D |-> FALSE], "undefined", "undefined") :
      D \in { S \in SUBSET PassKeys : Cardinality(S) <= MaxOverrideKeys } }

\* objects that switch off any of the passes
SubsetOverrides ==
  { Override([k \in D |-> FALSE], "undefined", "undefined") : D \in SUBSET PassKeys }

FormatterOverrides ==
  { Override(NoKeys, f, "undefined") : f \in {"undefined", "false", "FormatterOptions"} }

\* one Transformer, driven through its lifecycle in any order of calls
Next ==
  \/ \E o \in DisableOverrides : ~T.constructed /\ Construct(o)
  \/ \E s \in SourceTexts : Read(s)
  \/ \E f \in ReadNames : ReadFile(f)
  \/ \E p \in Transformations : ApplyTransformation(p)
  \/ ApplyTransformations
  \/ PrepareTransformations
  \/ Out

Spec == Init /\ [][Next]_vars

\* Transformers constructed one after another with any overrides
NextConfig ==
  \/ \E o \in ConfigOverrides : Construct(o)
  \/ \E o \in FormatterOverrides : ConstructOther(o)
  \/ PrepareTransformations

SpecConfig == Init /\ [][NextConfig]_vars

\* one Transformer with any subset of the passes, its full pipeline run
NextPipeline ==
  \/ \E o \in SubsetOverrides : ~T.constructed /\ Construct(o)
  \/ \E s \in SourceTexts : Read(s)
  \/ ApplyTransformations
  \/ Out

SpecPipeline == Init /\ [][NextPipeline]_vars

\* one Transformer and the provider's readFile, with the file system
NextIO ==
  \/ \E o \in FormatterOverrides : ~T.constructed /\ Construct(o)
  \/ \E f \in FileNames : ReadFile(f)
  \/ ApplyTransformations
  \/ \E f \in WriteNames, callback \in BOOLEAN : WriteFile(f, callback)
  \/ FsWriteOpen
  \/ FsWriteData
  \/ FsWriteDone
  \/ \E f \in FileNames, coffee \in {"undefined", "true", "false"}, callback \in BOOLEAN :
       AstReadFile(f, coffee, callback)
  \/ FsReadDone

SpecIO == Init /\ [][NextIO]_vars

\* one Transformer with any subset of the passes, run on trees that hold an
\* occurrence a pass cannot rewrite
NextDiagnostics ==
  \/ \E o \in SubsetOverrides : ~T.constructed /\ Construct(o)
  \/ \E s \in UnsupportedTexts : Read(s)
  \/ ApplyTransformations
  \/ Out

SpecDiagnostics == Init /\ [][NextDiagnostics]_vars

\* Transformers and the provider's readFile reading texts of both dialects
NextRead ==
  \/ \E o \in CoffeeOverrides : Construct(o)
  \/ \E s \in SourceTexts : Read(s)
  \/ \E f \in ReadNames : ReadFile(f)
  \/ \E f \in ReadNames, fresh \in BOOLEAN, coffee \in {"undefined", "true", "false"} :
       AstReadFileSync(f, fresh, coffee)

SpecRead == Init /\ [][NextRead]_vars

----------------------------------------------------------------------------
(* The claims *)

\* whether no read or readFile of T has succeeded: the constructor's {} is
\* replaced by a successful read only, and then by a Program
NeverRead == T.ast = EmptyObject

\* whether applyTransformations has run on the tree T holds
FullRunDone == \E i \in DOMAIN calls : calls[i] = "applyTransformations"

\* C1: applyTransformations on a Transformer on which no read has succeeded,
\* and out on one on which applyTransformations has not run, fail with a
\* StateError.
C1_MisuseFailsWithStateError ==
  /\ (last.op = "applyTransformations" /\ NeverRead) => last.outcome = "StateError"
  /\ (last.op = "out" /\ ~FullRunDone) => last.outcome = "StateError"

RECURSIVE AppliedPasses(_, _)
\* the passes the calls log says were applied to the tree, in order
AppliedPasses(log, transformations) ==
  IF log = <<>> THEN <<>>
  ELSE (CASE Head(log) = "applyTransformations" -> transformations
          [] Head(log) = "prepareTransformations" -> <<>>
          [] OTHER -> <<Head(log)>>)
         \o AppliedPasses(Tail(log), transformations)

\* the place of a pass in the order of spec 4.3
PassIndex(transformation) ==
  CHOOSE i \in DOMAIN PassTable : PassTable[i].transformation = transformation

\* whether the pass list is the one T held when the tree was read
ListAsRead == \A i \in DOMAIN calls : calls[i] # "prepareTransformations"

\* C2: over any calls after a read, each pass enabled at configuration time
\* is applied to the tree once and in pass-list order, and a disabled pass
\* is never applied.
C2_EnabledPassesOnceInOrder ==
  LET applied == AppliedPasses(calls, T.transformations)
      enabled == { T.transformations[i] : i \in DOMAIN T.transformations }
  IN  (~NeverRead /\ ListAsRead) =>
        /\ \A i \in DOMAIN applied : applied[i] \in enabled
        /\ \A i, j \in DOMAIN applied :
             i < j => PassIndex(applied[i]) < PassIndex(applied[j])
        /\ FullRunDone => \A p \in enabled : \E i \in DOMAIN applied : applied[i] = p

\* C3: constructing a Transformer never changes Transformer.defaultOptions,
\* so every omitted key takes the compiled-in default (all six passes on,
\* formatter off) however many Transformers were constructed before.
C3_DefaultOptionsNeverChange ==
  /\ defaultOptions = InitialDefaultOptions
  /\ (last.op = "constructor" /\ last.arg = NoOverride) =>
       /\ Len(T.transformations) = Len(PassTable)
       /\ options(T).formatter = "false"

\* C4: once T's constructor has returned, no later operation, on T or on
\* another Transformer, adds, removes or changes a key of T's options.
C4_OptionsFixedAfterConstruction ==
  [][(T.constructed /\ last'.op # "constructor") => options(T)' = options(T)]_vars

\* the pass order spec 4.3 declares
DeclaredOrder ==
  << "classTransformation", "templateStringTransformation",
     "arrowFunctionTransformation", "letTransformation",
     "defaultArgsTransformation", "objectMethodsTransformation" >>

\* the configuration key of each pass
KeyOf(transformation) ==
  CASE transformation = "classTransformation" -> "classes"
    [] transformation = "templateStringTransformation" -> "stringTemplates"
    [] transformation = "arrowFunctionTransformation" -> "arrowFunctions"
    [] transformation = "letTransformation" -> "let"
    [] transformation = "defaultArgsTransformation" -> "defaultArguments"
    [] OTHER -> "objectMethods"

\* C5: when the constructor returns, the pass list holds each enabled pass
\* once, no disabled pass, in the declared order, and nothing else: a key
\* other than the six pass names adds no entry.
C5_PassListIsEnabledInOrder ==
  last.op = "constructor" =>
    LET list == T.transformations
        on == options(T).transformers
    IN  /\ \A i \in DOMAIN list : \E n \in DOMAIN DeclaredOrder : list[i] = DeclaredOrder[n]
        /\ \A n \in DOMAIN DeclaredOrder :
             Cardinality({ i \in DOMAIN list : list[i] = DeclaredOrder[n] })
               = (IF on[KeyOf(DeclaredOrder[n])] THEN 1 ELSE 0)
        /\ \A i, j \in DOMAIN list :
             i < j => \E m, n \in DOMAIN DeclaredOrder :
                        m < n /\ list[i] = DeclaredOrder[m] /\ list[j] = DeclaredOrder[n]

\* a constructor call given a key that is no pass name and switching a pass
\* off, after which some but not all passes are in the list
C5_Witness ==
  /\ last.op = "constructor"
  /\ "blockScopedBindings" \in DOMAIN options(T).transformers
  /\ \E k \in DOMAIN last.arg.transformers : ~last.arg.transformers[k]
  /\ Len(T.transformations) \in 2..4

InList(transformation) ==
  \E i \in DOMAIN T.transformations : T.transformations[i] = transformation

\* C6: the block-scoped-bindings pass is controlled by the key
\* transformers.blockScopedBindings: false leaves the pass out of the list,
\* true or omitted puts it in.
C6_BlockScopedBindingsKeyControls ==
  last.op = "constructor" =>
    LET given == last.arg.transformers IN
      IF "blockScopedBindings" \in DOMAIN given /\ ~given["blockScopedBindings"]
      THEN ~InList("letTransformation")
      ELSE InList("letTransformation")

\* C6 as amended: the pass is controlled by the key transformers.let: given
\* false it is left out, given true it is in, and with let omitted it is in
\* exactly when Transformer.defaultOptions holds true for let; the key
\* blockScopedBindings has no part in it.
C6_LetKeyControls ==
  last.op = "constructor" =>
    LET given == last.arg.transformers IN
      IF "let" \in DOMAIN given
      THEN InList("letTransformation") <=> given["let"]
      ELSE InList("letTransformation") <=> defaultOptions.transformers["let"]

\* a constructor call given let: false that leaves only this pass out,
\* the options holding blockScopedBindings: true from an earlier call
C6_Witness ==
  /\ last.op = "constructor"
  /\ "let" \in DOMAIN last.arg.transformers
  /\ ~last.arg.transformers["let"]
  /\ ~InList("letTransformation")
  /\ Len(T.transformations) = 5
  /\ "blockScopedBindings" \in DOMAIN defaultOptions.transformers
  /\ defaultOptions.transformers["blockScopedBindings"]

Rank(p) ==
  CASE p = "Unconfigured" -> 0
    [] p = "Configured" -> 1
    [] p = "Parsed" -> 2
    [] p = "Lowered" -> 3
    [] OTHER -> 4

\* C7: the lifecycle Configured, Parsed, Lowered, Emitted never moves
\* backward: no call on a Transformer that holds a tree it has read returns
\* it to an earlier state.
C7_LifecycleNeverMovesBackward ==
  [][(last'.op # "constructor" /\ ~NeverRead) => Rank(phase') >= Rank(phase)]_vars

\* C8: writeFile given a callback never throws to its caller, and once
\* nothing is in flight the callback has run exactly once.
C8_WriteFileCallbackOnceNeverThrows ==
  last.op = "writeFile with callback" =>
    /\ last.outcome = "returned"
    /\ ~InFlight => cbCount = 1

\* C9: when the asynchronous read completes, the callback is handed the tree
\* that read makes of the file's text, or, the file being unreadable, the
\* error, with no parse attempted.
C9_AsyncReadDeliversFileTree ==
  (last.op = "fs.readFile callback" /\ pending.options.callback) =>
    IF disk[pending.file].exists
    THEN LET r == read(disk[pending.file].text, pending.options) IN
           r.outcome = "returned" =>
             cbCount = 1 /\ cbArg.kind = "result" /\ cbArg.ast = r.ast
    ELSE cbCount = 1 /\ cbArg.kind = "error" /\ last.outcome = "returned"

\* C10: out after applyTransformations has run twice (or more) on a tree
\* returns the text it returns after one run, whatever subset of the passes
\* is enabled.
C10_TwiceEqualsOnce ==
  (last.op = "out" /\ Len(calls) >= 1) => last.code = onceText

\* out after two runs on a tree in which a pass has rewritten a node, some
\* pass being disabled
C10_Witness ==
  /\ last.op = "out"
  /\ last.outcome = "returned"
  /\ Len(calls) = 2
  /\ T.ast # parse(T.sourceCode, 6).ast
  /\ Len(T.transformations) \in 1..5

\* whether the tree T holds has an occurrence an enabled pass cannot rewrite
HasDeclined ==
  \E i \in DOMAIN T.ast.body, j \in DOMAIN T.transformations :
    T.ast.body[i] = Declines(T.transformations[j])

AllDisabled ==
  /\ T.constructed
  /\ \A k \in PassKeys : ~shouldTransform(options(T), k)

\* C12: with all six passes disabled the pass list is empty,
\* applyTransformations leaves ast and sourceCode as they were, and out
\* returns the rendering of the tree that parsing sourceCode gives.
C12_AllDisabledLeavesTreeAsRead ==
  [][ AllDisabled' =>
        /\ T'.transformations = <<>>
        /\ last'.op = "applyTransformations" =>
             (T'.ast = T.ast /\ T'.sourceCode = T.sourceCode)
        /\ (last'.op = "out" /\ ~NeverRead) =>
             /\ last'.outcome = "returned"
             /\ last'.code =
                  out([T EXCEPT !.ast = parse(T.sourceCode, 6).ast], options(T)).code ]_vars

\* out after a run with all six passes disabled on a tree that holds a class
C12_Witness ==
  /\ AllDisabled
  /\ last.op = "out"
  /\ last.outcome = "returned"
  /\ FullRunDone
  /\ \E i \in DOMAIN T.ast.body : T.ast.body[i] = "ClassDeclaration"
  /\ last.code.tokens = T.sourceCode.tokens

\* whether the file handed to astGenerator.readFile is flagged as the
\* alternate dialect: the coffee option of the object handed in wins, else
\* the file name
Flagged ==
  IF kept.given # "undefined" THEN kept.given = "true"
  ELSE IsCoffeeName(kept.file)

\* C13: astGenerator.readFile runs the compiler on a file exactly when the
\* file is flagged: by the coffee option of the object handed in, else by its
\* name ending in .coffee, whatever was read earlier; read of a Transformer
\* runs it exactly when its options hold coffee: true.
C13_CompilerRunsExactlyWhenFlagged ==
  /\ (last.op = "astGenerator.readFile with sync" /\ last.outcome = "returned") =>
       (last.code.layout = "coffee" <=> Flagged)
  /\ (last.op = "read" /\ last.outcome = "returned") =>
       (T.sourceCode.layout = "coffee" <=> options(T).coffee = "true")

\* a file whose name does not end in .coffee, handed in with an object that
\* holds coffee: true, compiled
C13_Witness ==
  /\ last.op = "astGenerator.readFile with sync"
  /\ last.outcome = "returned"
  /\ kept.given = "true"
  /\ ~IsCoffeeName(kept.file)
  /\ last.code.layout = "coffee"

\* C14: after any read or readFile the ast a Transformer holds is the tree
\* that parsing its sourceCode gives, and a read that fails changes neither.
C14_AstAndSourceCodeArePair ==
  [][ /\ (T'.constructed /\ T'.ast # EmptyObject) =>
           /\ T'.sourceCode.kind = "string"
           /\ parse(T'.sourceCode, 6) = [outcome |-> "returned", ast |-> T'.ast]
      /\ (last'.op \in {"read", "readFile"} /\ last'.outcome # "returned") =>
           (T'.ast = T.ast /\ T'.sourceCode = T.sourceCode) ]_vars

\* a read that failed on a Transformer that holds the compiled text of an
\* earlier read of the alternate dialect
C14_Witness ==
  /\ last.op \in {"read", "readFile"}
  /\ last.outcome # "returned"
  /\ T.sourceCode.layout = "coffee"
  /\ T.ast # EmptyObject

====
